---- MODULE Spec2Model ----
(***************************************************************************)
(* Template lookup service (trackerUI): the record-resolution pipeline of  *)
(* app10.py / app9.py (normalisation, header index, key-column detection,  *)
(* row lookup, grouping of the record's fields) and the key detection of   *)
(* the first variant app.py.                                               *)
(*                                                                         *)
(* A Python str is a sequence of characters; a character is a one-letter   *)
(* TLA+ string, or "U+XXXX" for a code point outside ASCII.  Python's None *)
(* is the one-element sequence None, which is no str of the model.         *)
(***************************************************************************)
EXTENDS Integers, Sequences, FiniteSets, TLC

VARIABLES
    text, prev, napplied,                  \* _norm applied repeatedly to a str
    set_order, v1_key,                     \* app.py: per-process set order, key found
    csv, resp                              \* the CSV file and the last response

vars == <<text, prev, napplied, set_order, v1_key, csv, resp>>

normVars == <<text, prev, napplied>>
v1Vars == <<set_order, v1_key>>
serverVars == <<csv, resp>>

----------------------------------------------------------------------------
(* Bounds *)

MaxLen == 3        \* longest str given to _norm in SpecNorm
MaxApply == 2      \* times _norm is applied in a row
MaxHeaders == 3    \* most columns of a CSV file in SpecKey
MaxRows == 2       \* most lines after the header line in Spec
MaxGroupCols == 3  \* most columns of a CSV file in SpecGroup
MaxV1Headers == 2  \* most columns of a CSV file in SpecV1
NRuns == 2         \* runs of the app.py process that are compared in SpecV1
MaxValueParts == 3 \* most parts a cell value is put together from in SpecLink

----------------------------------------------------------------------------
(* Characters and str methods *)

None == <<"None">>

ZWSP == "U+200B"
BOM == "U+FEFF"
ACUTE == "U+0301"     \* combining acute accent
NBSP == "U+00A0"
SHARP_S == "U+00DF"
CHEROKEE_A == "U+13A0"         \* Cherokee letter A, an upper-case letter
CHEROKEE_SMALL_A == "U+AB70"   \* Cherokee small letter A

UpperAscii == <<"A", "B", "C", "D", "E", "F", "G", "H", "I", "J", "K", "L", "M",
                "N", "O", "P", "Q", "R", "S", "T", "U", "V", "W", "X", "Y", "Z">>
LowerAscii == <<"a", "b", "c", "d", "e", "f", "g", "h", "i", "j", "k", "l", "m",
                "n", "o", "p", "q", "r", "s", "t", "u", "v", "w", "x", "y", "z">>

\* The letters that have a precomposed form with the acute accent, and
\* that form.
AcuteBase == <<"a", "c", "e", "g", "i", "k", "l", "m", "n", "o", "p", "r", "s",
               "u", "w", "y", "z", "A", "C", "E", "G", "I", "K", "L", "M", "N",
               "O", "P", "R", "S", "U", "W", "Y", "Z">>
AcuteComposed == <<"U+00E1", "U+0107", "U+00E9", "U+01F5", "U+00ED", "U+1E31",
                   "U+013A", "U+1E3F", "U+0144", "U+00F3", "U+1E55", "U+0155",
                   "U+015B", "U+00FA", "U+1E83", "U+00FD", "U+017A", "U+00C1",
                   "U+0106", "U+00C9", "U+01F4", "U+00CD", "U+1E30", "U+0139",
                   "U+1E3E", "U+0143", "U+00D3", "U+1E54", "U+0154", "U+015A",
                   "U+00DA", "U+1E82", "U+00DD", "U+0179">>

Range(f) == {f[i] : i \in DOMAIN f}

UpperSet == Range(UpperAscii)
AcuteBaseSet == Range(AcuteBase)
AcuteComposedSet == Range(AcuteComposed)

\* list.index(x): the first position of x in seq (0 when absent)
IndexOf(seq, x) ==
    IF x \in Range(seq)
    THEN CHOOSE i \in DOMAIN seq : seq[i] = x /\ \A j \in 1..(i - 1) : seq[j] # x
    ELSE 0

\* the tables above as functions of the character
ToLower == [c \in UpperSet |-> LowerAscii[IndexOf(UpperAscii, c)]]
WithAcute == [c \in AcuteBaseSet |-> AcuteComposed[IndexOf(AcuteBase, c)]]
WithoutAcute == [c \in AcuteComposedSet |-> AcuteBase[IndexOf(AcuteComposed, c)]]

RECURSIVE Flatten(_)
Flatten(ss) == IF ss = <<>> THEN <<>> ELSE Head(ss) \o Flatten(Tail(ss))

\* str.isspace() of one character
IsSpace(c) == c \in {" ", "\t", "\n", NBSP}

RECURSIVE LStrip(_)
LStrip(s) == IF s # <<>> /\ IsSpace(Head(s)) THEN LStrip(Tail(s)) ELSE s

RECURSIVE RStrip(_)
RStrip(s) ==
    IF s # <<>> /\ IsSpace(s[Len(s)]) THEN RStrip(SubSeq(s, 1, Len(s) - 1)) ELSE s

\* str.strip()
Strip(s) == RStrip(LStrip(s))

\* " ".join(s.split()): the words of s, one space between them
RECURSIVE JoinSplit(_)
JoinSplit(s) ==
    LET t == LStrip(s)
    IN  IF t = <<>> THEN <<>>
        ELSE IF Len(t) > 1 /\ IsSpace(t[2])
             THEN IF LStrip(Tail(t)) = <<>> THEN <<t[1]>>
                  ELSE <<t[1], " ">> \o JoinSplit(Tail(t))
             ELSE <<t[1]>> \o JoinSplit(Tail(t))

\* s.replace(c, "")
Remove(s, c) == SelectSeq(s, LAMBDA x : x # c)

\* needle in hay (substring test)
Contains(hay, needle) ==
    \E i \in 0..(Len(hay) - Len(needle)) :
        SubSeq(hay, i + 1, i + Len(needle)) = needle

\* compatibility decomposition of one character
Decompose(c) ==
    IF c \in AcuteComposedSet THEN <<WithoutAcute[c], ACUTE>>
    ELSE IF c = NBSP THEN <<" ">> ELSE <<c>>

\* canonical composition: an accent composes with the letter right before it
RECURSIVE Compose(_, _)
Compose(done, rest) ==
    IF rest = <<>> THEN done
    ELSE IF /\ Head(rest) = ACUTE
            /\ done # <<>>
            /\ done[Len(done)] \in AcuteBaseSet
         THEN Compose(SubSeq(done, 1, Len(done) - 1) \o <<WithAcute[done[Len(done)]]>>,
                      Tail(rest))
         ELSE Compose(Append(done, Head(rest)), Tail(rest))

\* unicodedata.normalize("NFKC", s)
NFKC(s) == Compose(<<>>, Flatten([i \in DOMAIN s |-> Decompose(s[i])]))

\* str.casefold() of one character
CasefoldChar(c) ==
    IF c \in UpperSet THEN <<ToLower[c]>>
    ELSE IF c = SHARP_S THEN <<"s", "s">>
    ELSE IF c = CHEROKEE_SMALL_A THEN <<CHEROKEE_A>>
    ELSE IF c \in AcuteComposedSet /\ WithoutAcute[c] \in UpperSet
         THEN <<WithAcute[ToLower[WithoutAcute[c]]]>>
         ELSE <<c>>

Casefold(s) == Flatten([i \in DOMAIN s |-> CasefoldChar(s[i])])

\* str.lower() differs from casefold on the sharp s and on Cherokee letters
Lower(s) == Flatten([i \in DOMAIN s |->
                        IF s[i] = SHARP_S THEN <<s[i]>>
                        ELSE IF s[i] \in {CHEROKEE_A, CHEROKEE_SMALL_A}
                             THEN <<CHEROKEE_SMALL_A>>
                             ELSE CasefoldChar(s[i])])

\* _norm taking the zero-width characters out after the whitespace is collapsed
_norm_zero_width_last(s) ==
    IF s = None THEN <<>>
    ELSE Casefold(Remove(Remove(JoinSplit(Strip(NFKC(s))), ZWSP), BOM))

_norm(s) ==
    IF s = None THEN <<>>
    ELSE Casefold(JoinSplit(Strip(Remove(Remove(NFKC(s), ZWSP), BOM))))

----------------------------------------------------------------------------
(* Values of the variables a specification does not use *)

Unset == <<"unset">>

NormIdle == text = <<>> /\ prev = <<>> /\ napplied = 0
V1Idle == set_order = <<>> /\ v1_key = <<>>
ServerIdle == csv = Unset /\ resp = [variant |-> "none"]

----------------------------------------------------------------------------
(* SpecNorm: _norm applied to a str, and again to its own result *)

RECURSIVE SeqsUpTo(_, _)
SeqsUpTo(alphabet, n) ==
    IF n = 0 THEN {<<>>}
    ELSE LET shorter == SeqsUpTo(alphabet, n - 1)
         IN  shorter \cup {Append(s, c) : s \in shorter, c \in alphabet}

NormAlphabet == {"A", "b", " ", "\t", ZWSP, BOM, ACUTE, SHARP_S, "U+00C1",
                 CHEROKEE_SMALL_A}

InitNorm ==
    /\ text \in SeqsUpTo(NormAlphabet, MaxLen) \cup {None}
    /\ prev = <<>>
    /\ napplied = 0
    /\ V1Idle /\ ServerIdle

Normalize ==
    /\ napplied < MaxApply
    /\ prev' = text
    /\ text' = _norm(text)
    /\ napplied' = napplied + 1
    /\ UNCHANGED <<v1Vars, serverVars>>

NextNorm == Normalize

SpecNorm == InitNorm /\ [][NextNorm]_vars

\* C10: normalize is idempotent: once _norm has been applied, applying it
\* again to its own result gives that result back, for every str.
C10_NormIdempotent == napplied >= 2 => text = prev

----------------------------------------------------------------------------
(* Python containers *)

Min(S) == CHOOSE x \in S : \A y \in S : x <= y
Max(S) == CHOOSE x \in S : \A y \in S : x >= y

\* seq[:n] and seq[n:] for n >= 0
Take(seq, n) == SubSeq(seq, 1, IF n < Len(seq) THEN n ELSE Len(seq))
Drop(seq, n) == SubSeq(seq, (IF n < Len(seq) THEN n ELSE Len(seq)) + 1, Len(seq))

\* a dict is the sequence of its <<key, value>> items in insertion order;
\* NoneDict is None where a dict is expected
EmptyDict == <<>>
NoneDict == << <<"None">> >>
Keys(d) == {d[i][1] : i \in DOMAIN d}
Get(d, k, default) ==
    IF k \in Keys(d) THEN d[CHOOSE i \in DOMAIN d : d[i][1] = k][2] ELSE default
Put(d, k, v) ==
    IF k \in Keys(d) THEN [i \in DOMAIN d |-> IF d[i][1] = k THEN <<k, v>> ELSE d[i]]
    ELSE Append(d, <<k, v>>)

\* truth value of a str or None, of a list, of a dict or None
Truthy(s) == s # None /\ s # <<>>
TruthyList(l) == l # <<>>
TruthyDict(d) == d # NoneDict /\ d # EmptyDict

IsStr(v) == v # None

----------------------------------------------------------------------------
(* app10.py: configuration *)

ID_HEADER_CANDIDATES ==
    << <<"t", "e", "m", "p", "l", "a", "t", "e">>,
       <<"t", "e", "m", "p", "l", "a", "t", "e", " ", "i", "d">>,
       <<"t", "e", "m", "p", "l", "a", "t", "e", "_", "i", "d">>,
       <<"i", "d">> >>

S_template == <<"t", "e", "m", "p", "l", "a", "t", "e">>
S_id == <<"i", "d">>
S_link == <<"l", "i", "n", "k">>
S_url == <<"u", "r", "l">>
S_http == <<"h", "t", "t", "p", ":", "/", "/">>
S_https == <<"h", "t", "t", "p", "s", ":", "/", "/">>
S_TemplateID == <<"T", "e", "m", "p", "l", "a", "t", "e", " ", "I", "D">>
OUT_CHN == <<"O", "U", "T", "_", "C", "H", "N">>
HPX_Shutdown == <<"H", "P", "X", " ", "S", "h", "u", "t", "d", "o", "w", "n">>

----------------------------------------------------------------------------
(* The CSV file: Missing, or a File of the field names of its first line  *)
(* and the cells of each further line, as csv.reader splits them.         *)

Missing == [exists |-> FALSE, fieldnames |-> <<>>, lines |-> <<>>]
File(fieldnames, lines) == [exists |-> TRUE, fieldnames |-> fieldnames, lines |-> lines]

\* csv.DictReader: blank lines are skipped; a field name that occurs twice
\* keeps the cell of its last column; a column the line does not reach is None
RECURSIVE DictReaderRow(_, _, _, _)
DictReaderRow(fieldnames, line, i, d) ==
    IF i > Len(fieldnames) THEN d
    ELSE DictReaderRow(fieldnames, line, i + 1,
                       Put(d, fieldnames[i], IF i <= Len(line) THEN line[i] ELSE None))

\* the header loop without the test of the normalized header being empty
RECURSIVE HeaderIndex_blank_indexed(_, _)
HeaderIndex_blank_indexed(hs, idx) ==
    IF hs = <<>> THEN idx
    ELSE LET h == Head(hs)
             n == _norm(h)
         IN  HeaderIndex_blank_indexed(Tail(hs),
                                       IF h # None /\ n \notin Keys(idx)
                                       THEN Put(idx, n, h) ELSE idx)

\* the header loop without the "not in norm2orig" test: the last header wins
RECURSIVE HeaderIndex_last_wins(_, _)
HeaderIndex_last_wins(hs, idx) ==
    IF hs = <<>> THEN idx
    ELSE LET h == Head(hs)
             n == _norm(h)
         IN  HeaderIndex_last_wins(Tail(hs),
                                   IF h # None /\ Truthy(n) THEN Put(idx, n, h) ELSE idx)

\* load_csv, the header loop: normalized header -> original header
RECURSIVE HeaderIndex(_, _)
HeaderIndex(hs, idx) ==
    IF hs = <<>> THEN idx
    ELSE LET h == Head(hs)
             n == _norm(h)
         IN  HeaderIndex(Tail(hs),
                         IF h # None /\ Truthy(n) /\ n \notin Keys(idx)
                         THEN Put(idx, n, h) ELSE idx)

\* load_csv, the inner loop: one row with stripped keys and stripped values
RECURSIVE LoadRow(_, _)
LoadRow(r, row) ==
    IF r = <<>> THEN row
    ELSE LET k == Head(r)[1]
             v == Head(r)[2]
             kk == Strip(k)
         IN  LoadRow(Tail(r),
                     IF Truthy(k) /\ Truthy(kk)
                     THEN Put(row, kk, IF IsStr(v) THEN Strip(v) ELSE v)
                     ELSE row)

load_csv(file) ==
    LET raw_headers == file.fieldnames
        lines == SelectSeq(file.lines, LAMBDA l : l # <<>>)
    IN  [raw_headers |-> raw_headers,
         norm2orig |-> HeaderIndex(raw_headers, EmptyDict),
         rows |-> [i \in DOMAIN lines |->
                     LoadRow(DictReaderRow(raw_headers, lines[i], 1, EmptyDict),
                             EmptyDict)]]

\* detect_id_key with the substring rule tried before the candidates
detect_id_key_substring_first(norm2orig, raw_headers) ==
    LET cands == {c \in DOMAIN ID_HEADER_CANDIDATES :
                    ID_HEADER_CANDIDATES[c] \in Keys(norm2orig)}
        both == {i \in DOMAIN raw_headers :
                    /\ Contains(_norm(raw_headers[i]), S_template)
                    /\ Contains(_norm(raw_headers[i]), S_id)}
    IN  IF both # {} THEN raw_headers[Min(both)]
        ELSE IF cands # {} THEN Get(norm2orig, ID_HEADER_CANDIDATES[Min(cands)], None)
        ELSE IF TruthyList(raw_headers) /\ Contains(_norm(raw_headers[1]), S_template)
             THEN raw_headers[1]
             ELSE None

\* detect_id_key with the substring loop keeping its last hit
detect_id_key_last_with_both(norm2orig, raw_headers) ==
    LET cands == {c \in DOMAIN ID_HEADER_CANDIDATES :
                    ID_HEADER_CANDIDATES[c] \in Keys(norm2orig)}
        both == {i \in DOMAIN raw_headers :
                    /\ Contains(_norm(raw_headers[i]), S_template)
                    /\ Contains(_norm(raw_headers[i]), S_id)}
    IN  IF cands # {} THEN Get(norm2orig, ID_HEADER_CANDIDATES[Min(cands)], None)
        ELSE IF both # {} THEN raw_headers[Max(both)]
        ELSE IF TruthyList(raw_headers) /\ Contains(_norm(raw_headers[1]), S_template)
             THEN raw_headers[1]
             ELSE None

\* detect_id_key with the last rule looking at every column
detect_id_key_any_column(norm2orig, raw_headers) ==
    LET cands == {c \in DOMAIN ID_HEADER_CANDIDATES :
                    ID_HEADER_CANDIDATES[c] \in Keys(norm2orig)}
        both == {i \in DOMAIN raw_headers :
                    /\ Contains(_norm(raw_headers[i]), S_template)
                    /\ Contains(_norm(raw_headers[i]), S_id)}
        tmpl == {i \in DOMAIN raw_headers : Contains(_norm(raw_headers[i]), S_template)}
    IN  IF cands # {} THEN Get(norm2orig, ID_HEADER_CANDIDATES[Min(cands)], None)
        ELSE IF both # {} THEN raw_headers[Min(both)]
        ELSE IF tmpl # {} THEN raw_headers[Min(tmpl)]
        ELSE None

\* detect_id_key raising when it finds no key column, as load_rows of app.py
detect_id_key_raises(norm2orig, raw_headers) ==
    LET cands == {c \in DOMAIN ID_HEADER_CANDIDATES :
                    ID_HEADER_CANDIDATES[c] \in Keys(norm2orig)}
        both == {i \in DOMAIN raw_headers :
                    /\ Contains(_norm(raw_headers[i]), S_template)
                    /\ Contains(_norm(raw_headers[i]), S_id)}
    IN  IF cands # {} THEN Get(norm2orig, ID_HEADER_CANDIDATES[Min(cands)], None)
        ELSE IF both # {} THEN raw_headers[Min(both)]
        ELSE IF TruthyList(raw_headers) /\ Contains(_norm(raw_headers[1]), S_template)
             THEN raw_headers[1]
             ELSE <<"raise", "Could not find the 'Template ID' column.">>

detect_id_key(norm2orig, raw_headers) ==
    LET cands == {c \in DOMAIN ID_HEADER_CANDIDATES :
                    ID_HEADER_CANDIDATES[c] \in Keys(norm2orig)}
        both == {i \in DOMAIN raw_headers :
                    /\ Contains(_norm(raw_headers[i]), S_template)
                    /\ Contains(_norm(raw_headers[i]), S_id)}
    IN  IF cands # {} THEN Get(norm2orig, ID_HEADER_CANDIDATES[Min(cands)], None)
        ELSE IF both # {} THEN raw_headers[Min(both)]
        ELSE IF TruthyList(raw_headers) /\ Contains(_norm(raw_headers[1]), S_template)
             THEN raw_headers[1]
             ELSE None

\* find_row without the test of the normalized query being empty
find_row_blank_target(rows, id_key, q) ==
    LET target == _norm(q)
        hits == {i \in DOMAIN rows : _norm(Get(rows[i], id_key, <<>>)) = target}
    IN  IF hits # {} THEN rows[Min(hits)]
        ELSE NoneDict

\* find_row comparing the cell as it is written with the normalized query
find_row_raw_key(rows, id_key, q) ==
    LET target == _norm(q)
        hits == {i \in DOMAIN rows : Get(rows[i], id_key, <<>>) = target}
    IN  IF ~Truthy(target) THEN NoneDict
        ELSE IF hits # {} THEN rows[Min(hits)]
        ELSE NoneDict

\* find_row without the early return: the last matching row
find_row_last(rows, id_key, q) ==
    LET target == _norm(q)
        hits == {i \in DOMAIN rows : _norm(Get(rows[i], id_key, <<>>)) = target}
    IN  IF ~Truthy(target) THEN NoneDict
        ELSE IF hits # {} THEN rows[Max(hits)]
        ELSE NoneDict

find_row(rows, id_key, q) ==
    LET target == _norm(q)
        hits == {i \in DOMAIN rows : _norm(Get(rows[i], id_key, <<>>)) = target}
    IN  IF ~Truthy(target) THEN NoneDict
        ELSE IF hits # {} THEN rows[Min(hits)]
        ELSE NoneDict

----------------------------------------------------------------------------
(* Rendering *)

\* html.escape(s) of one character
EscapeChar(c) ==
    IF c = "&" THEN <<"&", "a", "m", "p", ";">>
    ELSE IF c = "<" THEN <<"&", "l", "t", ";">>
    ELSE IF c = ">" THEN <<"&", "g", "t", ";">>
    ELSE IF c = "\"" THEN <<"&", "q", "u", "o", "t", ";">>
    ELSE IF c = "'" THEN <<"&", "#", "x", "2", "7", ";">>
    ELSE <<c>>

\* esc(x): html.escape(str(x) if x is not None else "")
esc(x) == IF x = None THEN <<>> ELSE Flatten([i \in DOMAIN x |-> EscapeChar(x[i])])

StartsWith(s, prefix) == Len(s) >= Len(prefix) /\ SubSeq(s, 1, Len(prefix)) = prefix

\* _render_value without the test of the value's scheme
_render_value_any_value(header, value) ==
    IF value = None THEN [link |-> FALSE, text |-> <<>>]
    ELSE LET h == Lower(IF Truthy(header) THEN header ELSE <<>>)
             v == Strip(value)
         IN  IF /\ Truthy(v)
                /\ (Contains(h, S_link) \/ Contains(h, S_url))
             THEN [link |-> TRUE, text |-> esc(v)]
             ELSE [link |-> FALSE, text |-> esc(v)]

\* _render_value: an "Open" anchor to the value, or the escaped value
_render_value(header, value) ==
    IF value = None THEN [link |-> FALSE, text |-> <<>>]
    ELSE LET h == Lower(IF Truthy(header) THEN header ELSE <<>>)
             v == Strip(value)
         IN  IF /\ Truthy(v)
                /\ (Contains(h, S_link) \/ Contains(h, S_url))
                /\ (StartsWith(v, S_http) \/ StartsWith(v, S_https))
             THEN [link |-> TRUE, text |-> esc(v)]
             ELSE [link |-> FALSE, text |-> esc(v)]

\* _table_html rendering the header in the place of the record's value
RECURSIVE _table_html_header_as_value(_, _)
_table_html_header_as_value(headers, row) ==
    IF headers = <<>> THEN <<>>
    ELSE LET h == Head(headers)
             val == h
         IN  (IF IsStr(val) /\ ~Truthy(Strip(val))
              THEN <<>>
              ELSE << [th |-> esc(h), h |-> h, td |-> _render_value(h, val)] >>)
             \o _table_html_header_as_value(Tail(headers), row)

\* _table_html: the <tr> elements of one table, a header and its rendered value
RECURSIVE _table_html(_, _)
_table_html(headers, row) ==
    IF headers = <<>> THEN <<>>
    ELSE LET h == Head(headers)
             val == Get(row, h, <<>>)
         IN  (IF IsStr(val) /\ ~Truthy(Strip(val))
              THEN <<>>
              ELSE << [th |-> esc(h), h |-> h, td |-> _render_value(h, val)] >>)
             \o _table_html(Tail(headers), row)

\* page_html cutting at OUT_CHN only when its cell in the record is filled
page_html_boundary_if_populated(headers, row, id_key, error, q) ==
    LET out_chn_idx == IF /\ OUT_CHN \in Range(headers)
                          /\ TruthyDict(row)
                          /\ Truthy(Get(row, OUT_CHN, None))
                       THEN IndexOf(headers, OUT_CHN) - 1
                       ELSE Len(headers) - 1
        hpx_idx == IF HPX_Shutdown \in Range(headers)
                   THEN IndexOf(headers, HPX_Shutdown) - 1
                   ELSE Max({0, (out_chn_idx + 1) \div 2})
        template_detail_headers == Take(headers, out_chn_idx + 1)
        cloud_detail_headers == Drop(headers, out_chn_idx + 1)
        left_td_headers == Take(template_detail_headers, hpx_idx + 1)
        right_td_headers == Drop(template_detail_headers, hpx_idx + 1)
    IN  [groups |-> IF TruthyDict(row)
                    THEN << _table_html(left_td_headers, row),
                            _table_html(right_td_headers, row),
                            IF TruthyList(cloud_detail_headers)
                            THEN _table_html(cloud_detail_headers, row)
                            ELSE <<>> >>
                    ELSE << <<>>, <<>>, <<>> >>,
         result |-> IF TruthyDict(row) THEN "tables"
                    ELSE IF Truthy(q) THEN "No match" ELSE "",
         nomatch_q |-> IF ~TruthyDict(row) /\ Truthy(q) THEN esc(q) ELSE <<>>,
         search_by |-> esc(IF Truthy(id_key) THEN id_key ELSE S_TemplateID),
         error |-> error]

\* page_html cutting before OUT_CHN instead of after it
page_html_boundary_excluded(headers, row, id_key, error, q) ==
    LET out_chn_idx == IF OUT_CHN \in Range(headers)
                       THEN IndexOf(headers, OUT_CHN) - 2
                       ELSE Len(headers) - 1
        hpx_idx == IF HPX_Shutdown \in Range(headers)
                   THEN IndexOf(headers, HPX_Shutdown) - 1
                   ELSE Max({0, (out_chn_idx + 1) \div 2})
        template_detail_headers == Take(headers, out_chn_idx + 1)
        cloud_detail_headers == Drop(headers, out_chn_idx + 1)
        left_td_headers == Take(template_detail_headers, hpx_idx + 1)
        right_td_headers == Drop(template_detail_headers, hpx_idx + 1)
    IN  [groups |-> IF TruthyDict(row)
                    THEN << _table_html(left_td_headers, row),
                            _table_html(right_td_headers, row),
                            IF TruthyList(cloud_detail_headers)
                            THEN _table_html(cloud_detail_headers, row)
                            ELSE <<>> >>
                    ELSE << <<>>, <<>>, <<>> >>,
         result |-> IF TruthyDict(row) THEN "tables"
                    ELSE IF Truthy(q) THEN "No match" ELSE "",
         nomatch_q |-> IF ~TruthyDict(row) /\ Truthy(q) THEN esc(q) ELSE <<>>,
         search_by |-> esc(IF Truthy(id_key) THEN id_key ELSE S_TemplateID),
         error |-> error]

\* app10.py page_html: three tables (left and right of Template Details,
\* Cloud Details), the message under the form and the error banner
page_html(headers, row, id_key, error, q) ==
    LET out_chn_idx == IF OUT_CHN \in Range(headers)
                       THEN IndexOf(headers, OUT_CHN) - 1
                       ELSE Len(headers) - 1
        hpx_idx == IF HPX_Shutdown \in Range(headers)
                   THEN IndexOf(headers, HPX_Shutdown) - 1
                   ELSE Max({0, (out_chn_idx + 1) \div 2})
        template_detail_headers == Take(headers, out_chn_idx + 1)
        cloud_detail_headers == Drop(headers, out_chn_idx + 1)
        left_td_headers == Take(template_detail_headers, hpx_idx + 1)
        right_td_headers == Drop(template_detail_headers, hpx_idx + 1)
    IN  [groups |-> IF TruthyDict(row)
                    THEN << _table_html(left_td_headers, row),
                            _table_html(right_td_headers, row),
                            IF TruthyList(cloud_detail_headers)
                            THEN _table_html(cloud_detail_headers, row)
                            ELSE <<>> >>
                    ELSE << <<>>, <<>>, <<>> >>,
         result |-> IF TruthyDict(row) THEN "tables"
                    ELSE IF Truthy(q) THEN "No match" ELSE "",
         nomatch_q |-> IF ~TruthyDict(row) /\ Truthy(q) THEN esc(q) ELSE <<>>,
         search_by |-> esc(IF Truthy(id_key) THEN id_key ELSE S_TemplateID),
         error |-> error]

\* app9.py page_html: two tables (Details, Doc Details)
page_html_9(headers, row, id_key, error, q) ==
    LET split_idx == IF OUT_CHN \in Range(headers)
                     THEN IndexOf(headers, OUT_CHN)
                     ELSE (Len(headers) + 1) \div 2
        left_headers == Take(headers, split_idx)
        right_headers == Drop(headers, split_idx)
    IN  [groups |-> IF TruthyDict(row)
                    THEN << _table_html(left_headers, row),
                            _table_html(right_headers, row) >>
                    ELSE << <<>>, <<>> >>,
         result |-> IF TruthyDict(row) THEN "tables"
                    ELSE IF Truthy(q) THEN "No match" ELSE "",
         nomatch_q |-> IF ~TruthyDict(row) /\ Truthy(q) THEN esc(q) ELSE <<>>,
         search_by |-> esc(IF Truthy(id_key) THEN id_key ELSE S_TemplateID),
         error |-> error]

\* app7.py table_html: val.strip() on every header's value, which raises
\* AttributeError when the value is None
table_html_7_raises(headers, row) ==
    /\ TruthyDict(row)
    /\ \E i \in DOMAIN headers : Get(row, headers[i], <<>>) = None

RECURSIVE table_html_7(_, _)
table_html_7(headers, row) ==
    IF ~TruthyDict(row) \/ headers = <<>> THEN <<>>
    ELSE LET h == Head(headers)
             val == Get(row, h, <<>>)
         IN  (IF IsStr(val) /\ Truthy(Strip(val))
              THEN << [th |-> esc(h), h |-> h, td |-> _render_value(h, val)] >>
              ELSE <<>>)
             \o table_html_7(Tail(headers), row)

\* app7.py render_page: two tables (Details, Doc Details), built only for a row
render_page_7(headers, row, id_key, error, query_val) ==
    LET split_index == IF OUT_CHN \in Range(headers)
                       THEN IndexOf(headers, OUT_CHN)
                       ELSE Len(headers) \div 2
        left_headers == Take(headers, split_index)
        right_headers == Drop(headers, split_index)
    IN  [groups |-> IF TruthyDict(row)
                    THEN << table_html_7(left_headers, row),
                            table_html_7(right_headers, row) >>
                    ELSE << <<>>, <<>> >>,
         result |-> IF TruthyDict(row) THEN "tables"
                    ELSE IF Truthy(query_val) THEN "No match" ELSE "",
         nomatch_q |-> IF ~TruthyDict(row) /\ Truthy(query_val)
                       THEN esc(query_val) ELSE <<>>,
         search_by |-> esc(IF Truthy(id_key) THEN id_key ELSE S_TemplateID),
         error |-> error]

----------------------------------------------------------------------------
(* The server *)

NoResp == [variant |-> "none"]
Responded == resp.variant # "none"

E_NotFound == <<"CSV not found at 'templates.csv'.">>
E_NoSuchFile == <<"[Errno 2] No such file or directory: 'templates.csv'">>
E_AttributeError == <<"'NoneType' object has no attribute 'strip'">>

\* an exception raised inside the try block of do_GET
IsException(x) == x # <<>> /\ x[1] = "raise"

\* Handler.do_GET with a lookup that takes the matched row out of the rows
Handle_consuming(variant, file, q) ==
    LET page(headers, row, key, error) ==
            IF variant = "app10" THEN page_html(headers, row, key, error, q)
            ELSE IF variant = "app9" THEN page_html_9(headers, row, key, error, q)
            ELSE render_page_7(headers, row, key, error, q)
        failed(error) ==
            [variant |-> variant, code |-> 500, q |-> q, headers |-> <<>>,
             norm2orig |-> EmptyDict, rows |-> <<>>, id_key |-> None,
             row |-> NoneDict, page |-> page(<<>>, NoneDict, None, error)]
    IN  IF file = Missing
        THEN failed(IF variant = "app7" THEN E_NoSuchFile ELSE E_NotFound)
        ELSE LET loaded == load_csv(file)
                 headers == loaded.raw_headers
                 id_key == detect_id_key(loaded.norm2orig, headers)
                 row == IF Truthy(id_key) /\ Truthy(q)
                        THEN find_row(loaded.rows, id_key, q) ELSE NoneDict
             IN  IF IsException(id_key) THEN failed(Tail(id_key))
                 ELSE IF variant = "app7" /\ table_html_7_raises(headers, row)
                 THEN failed(E_AttributeError)
                 ELSE [variant |-> variant, code |-> 200, q |-> q,
                       headers |-> headers, norm2orig |-> loaded.norm2orig,
                       rows |-> SelectSeq(loaded.rows, LAMBDA r : r # row),
                       id_key |-> id_key, row |-> row,
                       page |-> page(headers, row, id_key, None)]

\* Handler.do_GET of app10.py / app9.py / app7.py: the response to
\* GET /?id=q, with the values the handler computed on the way
Handle(variant, file, q) ==
    LET page(headers, row, key, error) ==
            IF variant = "app10" THEN page_html(headers, row, key, error, q)
            ELSE IF variant = "app9" THEN page_html_9(headers, row, key, error, q)
            ELSE render_page_7(headers, row, key, error, q)
        failed(error) ==
            [variant |-> variant, code |-> 500, q |-> q, headers |-> <<>>,
             norm2orig |-> EmptyDict, rows |-> <<>>, id_key |-> None,
             row |-> NoneDict, page |-> page(<<>>, NoneDict, None, error)]
    IN  IF file = Missing
        THEN failed(IF variant = "app7" THEN E_NoSuchFile ELSE E_NotFound)
        ELSE LET loaded == load_csv(file)
                 headers == loaded.raw_headers
                 id_key == detect_id_key(loaded.norm2orig, headers)
                 row == IF Truthy(id_key) /\ Truthy(q)
                        THEN find_row(loaded.rows, id_key, q) ELSE NoneDict
             IN  IF IsException(id_key) THEN failed(Tail(id_key))
                 ELSE IF variant = "app7" /\ table_html_7_raises(headers, row)
                 THEN failed(E_AttributeError)
                 ELSE [variant |-> variant, code |-> 200, q |-> q,
                       headers |-> headers, norm2orig |-> loaded.norm2orig,
                       rows |-> loaded.rows, id_key |-> id_key, row |-> row,
                       page |-> page(headers, row, id_key, None)]

\* do_GET answering 500 for ever once a request has failed
do_GET_stuck(q) ==
    /\ resp' = IF Responded /\ resp.code = 500
               THEN Handle("app10", Missing, q)
               ELSE Handle("app10", csv, q)
    /\ UNCHANGED <<csv, normVars, v1Vars>>

\* do_GET answering from the rows it loaded for the request before
do_GET_cached(q) ==
    /\ resp' = IF Responded /\ resp.code = 200
               THEN Handle("app10", File(csv.fieldnames, <<>>), q)
               ELSE Handle("app10", csv, q)
    /\ UNCHANGED <<csv, normVars, v1Vars>>

do_GET(q) ==
    /\ resp' = Handle("app10", csv, q)
    /\ UNCHANGED <<csv, normVars, v1Vars>>

do_GET_9(q) ==
    /\ resp' = Handle("app9", csv, q)
    /\ UNCHANGED <<csv, normVars, v1Vars>>

do_GET_7(q) ==
    /\ resp' = Handle("app7", csv, q)
    /\ UNCHANGED <<csv, normVars, v1Vars>>

\* The file is edited between requests; the response of the last request
\* has been sent by then.
AppendLine(line) ==
    /\ csv # Missing
    /\ Len(csv.lines) < MaxRows
    /\ Len(line) <= Len(csv.fieldnames)
    /\ csv' = [csv EXCEPT !.lines = Append(@, line)]
    /\ resp' = NoResp
    /\ UNCHANGED <<normVars, v1Vars>>

RemoveFile ==
    /\ csv # Missing
    /\ csv' = Missing
    /\ resp' = NoResp
    /\ UNCHANGED <<normVars, v1Vars>>

CreateFile(fieldnames) ==
    /\ csv = Missing
    /\ csv' = File(fieldnames, <<>>)
    /\ resp' = NoResp
    /\ UNCHANGED <<normVars, v1Vars>>

----------------------------------------------------------------------------
(* Spec: lookups in a file of up to MaxRows lines *)

H_ID == <<"I", "D">>
H_id_spaced == <<" ", "i", "d">>
H_TID == <<"T", "I", "D">>
H_Notes == <<"N", "o", "t", "e", "s">>

V_T1 == <<"T", "1">>
V_t1_spaced == <<" ", "t", "1", " ">>
V_zz == <<"z", "z">>

\* the header lines of the files: no column, a key column in either spelling,
\* no key column, a key column first or second, and a repeated key header
HeaderLists ==
    {<<>>, <<H_ID>>, <<H_id_spaced>>, <<H_TID>>,
     <<H_ID, H_TID>>, <<H_TID, H_ID>>, <<H_ID, H_ID>>}
CellPool == {V_T1, V_t1_spaced, <<>>}
QueryPool == {<<>>, <<" ">>, <<"t", "1">>, <<"T", "1", " ">>, V_zz}

Init ==
    /\ csv \in {Missing} \cup
               {File(hs, <<>>) : hs \in HeaderLists}
    /\ resp = NoResp
    /\ NormIdle /\ V1Idle

Next ==
    \/ \E q \in QueryPool : do_GET(q)
    \/ \E q \in QueryPool : do_GET_9(q)
    \/ \E line \in SeqsUpTo(CellPool, Len(csv.fieldnames)) : AppendLine(line)
    \/ RemoveFile
    \/ \E hs \in HeaderLists : CreateFile(hs)

Spec == Init /\ [][Next]_vars

----------------------------------------------------------------------------
(* SpecKey: requests on a file of up to MaxHeaders columns and no line,   *)
(* for load_csv's header index and detect_id_key                          *)

H_TemplateID == <<"T", "e", "m", "p", "l", "a", "t", "e", " ", "I", "D">>
H_template_id_spaced == <<" ", "t", "e", "m", "p", "l", "a", "t", "e", " ", " ", "i", "d">>
H_Template == <<"T", "e", "m", "p", "l", "a", "t", "e">>
H_TemplateIds == <<"T", "e", "m", "p", "l", "a", "t", "e", " ", "I", "d", "s">>
H_TemplateGuide == <<"T", "e", "m", "p", "l", "a", "t", "e", " ", "G", "u", "i", "d", "e">>
H_TemplateName == <<"T", "e", "m", "p", "l", "a", "t", "e", " ", "N", "a", "m", "e">>

KeyHeaderPool == {H_TemplateID, H_template_id_spaced, H_ID, H_Template, H_TemplateIds,
                  H_TemplateGuide, H_TemplateName, H_Notes, H_TID, <<>>}
KeyQueryPool == {<<>>, V_T1}

InitKey ==
    /\ csv \in {File(hs, <<>>) : hs \in SeqsUpTo(KeyHeaderPool, MaxHeaders)}
    /\ resp = NoResp
    /\ NormIdle /\ V1Idle

NextKey == \E q \in KeyQueryPool : do_GET(q)

SpecKey == InitKey /\ [][NextKey]_vars

----------------------------------------------------------------------------
(* SpecGroup: requests on a file of up to MaxGroupCols columns and one    *)
(* line, answered by app10.py (three tables) and by app9.py (two tables)  *)

H_A == <<"A">>
V_v == <<"v">>

GroupHeaderPool == {H_ID, H_A, HPX_Shutdown, OUT_CHN}
GroupCellPool == {V_v, <<>>}

InitGroup ==
    /\ csv \in {File(hs, <<line>>) :
                  hs \in SeqsUpTo(GroupHeaderPool, MaxGroupCols),
                  line \in SeqsUpTo(GroupCellPool, MaxGroupCols)}
    /\ Len(csv.lines[1]) <= Len(csv.fieldnames)
    /\ resp = NoResp
    /\ NormIdle /\ V1Idle

NextGroup ==
    \/ do_GET(V_v)
    \/ do_GET_9(V_v)
    \/ do_GET_7(V_v)

SpecGroup == InitGroup /\ [][NextGroup]_vars

----------------------------------------------------------------------------
(* SpecLink: the record of a two-column file, the key and one more cell
   whose header and value may make a link *)

H_DocLink == <<"D", "o", "c", " ", "L", "i", "n", "k">>
H_URL == <<"U", "R", "L">>
H_curl == <<"c", "u", "r", "l">>
H_Doc == <<"D", "o", "c">>
H_Lnk == <<"L", "n", "k">>

P_x == <<"x">>
P_space == <<" ">>
P_HTTP == <<"H", "T", "T", "P", ":", "/", "/">>
P_ftp == <<"f", "t", "p", ":", "/", "/">>

LinkHeaderPool == {H_DocLink, H_URL, H_curl, H_Doc, H_Lnk}
ValuePartPool == {S_http, S_https, P_HTTP, P_ftp, P_x, P_space}
LinkValuePool == {Flatten(parts) : parts \in SeqsUpTo(ValuePartPool, MaxValueParts)}

InitLink ==
    /\ csv \in {File(<<H_ID, h>>, << <<V_v, value>> >>) :
                  h \in LinkHeaderPool, value \in LinkValuePool}
    /\ resp = NoResp
    /\ NormIdle /\ V1Idle

NextLink ==
    \/ do_GET(V_v)
    \/ do_GET_9(V_v)
    \/ do_GET_7(V_v)

SpecLink == InitLink /\ [][NextLink]_vars

----------------------------------------------------------------------------
(* SpecCache: one server process answering request after request while the
   file is written, deleted and created again; the last response stays in
   the state, the server has answered one request at the start *)

CacheHeaderLists == {<<H_ID>>, <<H_TID>>}
CacheCellPool == {V_T1, <<>>}
CacheQueryPool == {<<"t", "1">>, V_zz}
CacheVariants == {"app10", "app9"}

\* the file is changed outside the server, which is not told
WriteLine(line) ==
    /\ csv # Missing
    /\ Len(csv.lines) < MaxRows
    /\ Len(line) <= Len(csv.fieldnames)
    /\ csv' = [csv EXCEPT !.lines = Append(@, line)]
    /\ UNCHANGED <<resp, normVars, v1Vars>>

DeleteFile ==
    /\ csv # Missing
    /\ csv' = Missing
    /\ UNCHANGED <<resp, normVars, v1Vars>>

WriteFile(fieldnames) ==
    /\ csv = Missing
    /\ csv' = File(fieldnames, <<>>)
    /\ UNCHANGED <<resp, normVars, v1Vars>>

InitCache ==
    /\ csv \in {Missing} \cup {File(hs, <<>>) : hs \in CacheHeaderLists}
    /\ resp \in {Handle(v, csv, q) : v \in CacheVariants, q \in CacheQueryPool}
    /\ NormIdle /\ V1Idle

NextCache ==
    \/ \E q \in CacheQueryPool : do_GET(q)
    \/ \E q \in CacheQueryPool : do_GET_9(q)
    \/ \E line \in SeqsUpTo(CacheCellPool, Len(csv.fieldnames)) : WriteLine(line)
    \/ DeleteFile
    \/ \E hs \in CacheHeaderLists : WriteFile(hs)

SpecCache == InitCache /\ [][NextCache]_vars

----------------------------------------------------------------------------
(* Key-column detection and the header index (SpecKey) *)

\* the headers of the answered request and their normalized forms
Hdr == resp.headers
NormOf(i) == _norm(Hdr[i])

Answered == Responded /\ resp.code = 200

\* the candidates some header equals after normalization, the headers that
\* contain both "template" and "id", and those that contain "template"
CandsPresent ==
    {c \in DOMAIN ID_HEADER_CANDIDATES :
        \E i \in DOMAIN Hdr : NormOf(i) = ID_HEADER_CANDIDATES[c]}
BothTokens ==
    {i \in DOMAIN Hdr : Contains(NormOf(i), S_template) /\ Contains(NormOf(i), S_id)}
TemplateToken == {i \in DOMAIN Hdr : Contains(NormOf(i), S_template)}

\* C4: tier 1 has strict priority and follows the candidate order: when
\* some header equals a candidate after normalization, the key column is
\* the first header (in column order) that equals the earliest such
\* candidate (in listed order), whatever the substring rules would pick.
C4_Tier1Priority ==
    (Answered /\ CandsPresent # {}) =>
        LET cand == ID_HEADER_CANDIDATES[Min(CandsPresent)]
        IN  resp.id_key = Hdr[Min({i \in DOMAIN Hdr : NormOf(i) = cand})]

C4_Witness ==
    /\ Answered
    /\ Hdr = <<H_TemplateIds, H_ID, H_Template>>
    /\ resp.id_key = H_Template

\* C5: tier 2: when no header equals a candidate, the key column is the
\* first header in column order that contains both "template" and "id".
C5_Tier2FirstWithBoth ==
    (Answered /\ CandsPresent = {} /\ BothTokens # {}) =>
        resp.id_key = Hdr[Min(BothTokens)]

C5_Witness ==
    /\ Answered
    /\ Hdr = <<H_TemplateName, H_TemplateGuide, H_TemplateIds>>
    /\ resp.id_key = H_TemplateGuide

\* C6 as claimed: tier 3: when tiers 1 and 2 find nothing, the key column
\* is the first header, at whatever column, that contains "template".
C6_Tier3AnyColumn ==
    (Answered /\ CandsPresent = {} /\ BothTokens = {} /\ TemplateToken # {}) =>
        resp.id_key = Hdr[Min(TemplateToken)]

\* C6 as amended: when tiers 1 and 2 find nothing, the key column is the
\* header of the first column if that header contains "template", and
\* there is no key column otherwise.
C6_Tier3FirstColumnOnly ==
    (Answered /\ CandsPresent = {} /\ BothTokens = {}) =>
        resp.id_key = IF 1 \in TemplateToken THEN Hdr[1] ELSE None

C6_Witness ==
    /\ Answered
    /\ Hdr = <<H_TemplateName, H_Notes>>
    /\ resp.id_key = H_TemplateName

NoGroups == \A g \in DOMAIN resp.page.groups : resp.page.groups[g] = <<>>

\* C7: when no tier matches (no header equals a candidate, none contains
\* "template"), the request is answered normally (200, no error) with no
\* key column, no record and empty groups; so for the headers TID, Notes
\* and for the empty file.
C7_NoKeyIsOrdinary ==
    (Responded /\ csv.exists
       /\ \A i \in DOMAIN csv.fieldnames :
             /\ _norm(csv.fieldnames[i]) \notin Range(ID_HEADER_CANDIDATES)
             /\ ~Contains(_norm(csv.fieldnames[i]), S_template)) =>
        /\ resp.code = 200
        /\ resp.page.error = None
        /\ resp.id_key = None
        /\ resp.row = NoneDict
        /\ NoGroups

C7_Witness ==
    /\ Answered
    /\ Hdr = <<H_TID, H_Notes>>
    /\ resp.q = V_T1
    /\ resp.id_key = None
    /\ resp.page.result = "No match"

\* C9: the header index is first-occurrence-wins: every non-empty
\* normalized header is mapped to the first header (in column order) with
\* that normalized form, and the index has exactly one entry for each.
C9_IndexFirstOccurrence ==
    Answered =>
        /\ \A i \in DOMAIN Hdr :
              Truthy(NormOf(i)) =>
                  Get(resp.norm2orig, NormOf(i), None)
                      = Hdr[Min({j \in DOMAIN Hdr : NormOf(j) = NormOf(i)})]
        /\ Keys(resp.norm2orig) = {NormOf(i) : i \in DOMAIN Hdr} \ {<<>>}
        /\ Len(resp.norm2orig) = Cardinality(Keys(resp.norm2orig))

C9_Witness ==
    /\ Answered
    /\ Hdr = <<H_Notes, H_TemplateID, H_template_id_spaced>>
    /\ Get(resp.norm2orig, ID_HEADER_CANDIDATES[2], None) = H_TemplateID

----------------------------------------------------------------------------
(* Lookup (Spec) *)

\* the rows of the answered request whose key-column value has the
\* normalized form of the query
KeyMatches ==
    {i \in DOMAIN resp.rows :
        _norm(Get(resp.rows[i], resp.id_key, None)) = _norm(resp.q)}

\* C1: with a key column and a query whose normalized form is not empty,
\* the record found is the first row whose key-column value, normalized,
\* equals the normalized query, and there is no record exactly when no row
\* has such a key value.
C1_FirstMatchInRowOrder ==
    (Answered /\ Truthy(resp.id_key) /\ Truthy(_norm(resp.q))) =>
        /\ (resp.row = NoneDict) <=> (KeyMatches = {})
        /\ KeyMatches # {} =>
              \E i \in KeyMatches :
                  /\ resp.row = resp.rows[i]
                  /\ \A j \in 1..(i - 1) : j \notin KeyMatches

C1_Witness ==
    /\ Answered
    /\ Hdr = <<H_ID, H_TID>>
    /\ resp.q = <<"t", "1">>
    /\ Len(resp.rows) = 2
    /\ KeyMatches = {1, 2}
    /\ resp.rows[1] # resp.rows[2]
    /\ resp.row = resp.rows[1]

\* the column of the key header in the file, and the lines whose cell in
\* that column has the normalized form of the query
KeyColumn == IndexOf(csv.fieldnames, resp.id_key)
CellMatches ==
    {l \in DOMAIN csv.lines :
        /\ KeyColumn <= Len(csv.lines[l])
        /\ _norm(csv.lines[l][KeyColumn]) = _norm(resp.q)}

\* C2: end to end, when a key column is detected and some line's cell in
\* that column has the same non-empty normalized form as the query, the
\* answer shows a record, not "No match"; for every spelling of the key
\* header and of the key value.
C2_MatchEndToEnd ==
    (Answered /\ Truthy(resp.id_key) /\ Truthy(_norm(resp.q)) /\ CellMatches # {}) =>
        /\ resp.page.result = "tables"
        /\ TruthyDict(resp.row)

----------------------------------------------------------------------------
(* Grouping (SpecGroup) *)

\* a header is populated in a record when its value is there (not None)
\* and not empty after trimming
Populated(row, h) ==
    LET v == Get(row, h, None) IN v # None /\ Truthy(Strip(v))

ShownHeaders == Flatten([g \in DOMAIN resp.page.groups |->
                           [i \in DOMAIN resp.page.groups[g] |-> resp.page.groups[g][i].h]])

\* C3: for a matched record, the headers of all groups, concatenated in
\* group order, are exactly the record's populated headers in column
\* order, none twice and none omitted.
C3_GroupsPartitionPopulated ==
    (Answered /\ TruthyDict(resp.row)) =>
        ShownHeaders = SelectSeq(Hdr, LAMBDA h : Populated(resp.row, h))

----------------------------------------------------------------------------
(* SpecV1: app.py, whose candidates are a set of str.  A process iterates *)
(* the set in the order its hash seed gives, fixed when it starts.        *)

TEMPLATE_ID_HEADER_CANDIDATES ==
    { <<"t", "e", "m", "p", "l", "a", "t", "e", " ", "i", "d">>,
      <<"t", "e", "m", "p", "l", "a", "t", "e", "_", "i", "d">>,
      <<"i", "d">> }

SetOrders ==
    {o \in [1..Cardinality(TEMPLATE_ID_HEADER_CANDIDATES) -> TEMPLATE_ID_HEADER_CANDIDATES] :
        \A i, j \in DOMAIN o : i # j => o[i] # o[j]}

\* load_rows, header_map: {h.lower().strip(): h for h in headers}
RECURSIVE header_map_v1(_, _)
header_map_v1(hs, d) ==
    IF hs = <<>> THEN d
    ELSE header_map_v1(Tail(hs), Put(d, Strip(Lower(Head(hs))), Head(hs)))

\* load_rows, the search of the key header; order is the iteration order
\* of TEMPLATE_ID_HEADER_CANDIDATES in this process
load_rows_id_key(headers, order) ==
    LET header_map == header_map_v1(headers, EmptyDict)
        cands == {c \in DOMAIN order : order[c] \in Keys(header_map)}
        both == {i \in DOMAIN headers :
                    /\ Contains(Lower(headers[i]), S_template)
                    /\ Contains(Lower(headers[i]), S_id)}
    IN  IF cands # {} THEN Get(header_map, order[Min(cands)], None)
        ELSE IF both # {} THEN headers[Min(both)]
        ELSE <<"raise", "Could not find the 'Template ID' column.">>

Runs == 1..NRuns

V1HeaderPool == {H_ID, H_TemplateID, H_Notes}

InitV1 ==
    /\ csv \in {File(hs, <<>>) : hs \in SeqsUpTo(V1HeaderPool, MaxV1Headers)}
    /\ set_order = [r \in Runs |-> <<>>]
    /\ v1_key = [r \in Runs |-> Unset]
    /\ resp = NoResp
    /\ NormIdle

\* python3 app.py: the interpreter picks its hash seed
StartProcess(r) ==
    /\ set_order[r] = <<>>
    /\ \E o \in SetOrders : set_order' = [set_order EXCEPT ![r] = o]
    /\ UNCHANGED <<v1_key, csv, resp, normVars>>

\* a request to process r: load_rows reads the file and finds the key header
LoadRowsV1(r) ==
    /\ set_order[r] # <<>>
    /\ csv.exists
    /\ v1_key' = [v1_key EXCEPT ![r] = load_rows_id_key(csv.fieldnames, set_order[r])]
    /\ UNCHANGED <<set_order, csv, resp, normVars>>

NextV1 ==
    \/ \E r \in Runs : StartProcess(r)
    \/ \E r \in Runs : LoadRowsV1(r)

SpecV1 == InitV1 /\ [][NextV1]_vars

\* C8: key detection is deterministic: for the same header list every
\* process run finds the same key column (or none), also when several
\* headers each equal a different candidate; Template ID, Notes always
\* resolve to Template ID.
C8_KeyDetectionDeterministic ==
    /\ \A r1, r2 \in Runs :
          (v1_key[r1] # Unset /\ v1_key[r2] # Unset) => v1_key[r1] = v1_key[r2]
    /\ \A r \in Runs :
          (v1_key[r] # Unset /\ csv.fieldnames = <<H_TemplateID, H_Notes>>)
              => v1_key[r] = H_TemplateID

----------------------------------------------------------------------------
(* The outcome of a request (Spec) *)

\* the message under the form: nothing, a miss, or the record's tables
NoQuery == resp.page.result = ""
NoMatch == resp.page.result = "No match"
Matched == resp.page.result = "tables"

\* C11: a query whose normalized form is empty (blank, whitespace only) is
\* answered as no query at all, with no record and no "No match" message,
\* while a query with a non-empty normalized form that matches no row of
\* the key column is answered with "No match".
C11_BlankQueryIsNoQuery ==
    Answered =>
        /\ ~Truthy(_norm(resp.q)) => resp.row = NoneDict /\ NoQuery
        /\ (Truthy(_norm(resp.q)) /\ Truthy(resp.id_key) /\ KeyMatches = {})
              => NoMatch

\* C12: when the file is read and no key column is detected, a request
\* with a query of non-empty normalized form ends normally (200) with no
\* record, and it is not answered with "No match", the message of a miss.
C12_NoKeyColumnIsNotAMiss ==
    (Responded /\ csv # Missing /\ ~Truthy(resp.id_key) /\ Truthy(_norm(resp.q))) =>
        /\ resp.code = 200
        /\ resp.row = NoneDict
        /\ ~NoMatch

----------------------------------------------------------------------------
(* The display groups of a matched record (SpecGroup) *)

\* C13: for a matched record a header is in some display group exactly
\* when the record's value for it is present (not None) and not empty after
\* trimming.
C13_ShownIffPopulated ==
    (Answered /\ Matched) =>
        \A i \in DOMAIN Hdr :
            (Hdr[i] \in Range(ShownHeaders)) <=> Populated(resp.row, Hdr[i])

\* Group 1 and Group 2 of the answer: app10.py shows Group 1 (Template
\* Details) as two tables side by side and Group 2 (Cloud Details) as the
\* third table; app9.py and app7.py show one table for each group.
HeadersOf(g) == [i \in DOMAIN g |-> g[i].h]
Group1 ==
    IF resp.variant = "app10"
    THEN HeadersOf(resp.page.groups[1]) \o HeadersOf(resp.page.groups[2])
    ELSE HeadersOf(resp.page.groups[1])
Group2 ==
    IF resp.variant = "app10" THEN HeadersOf(resp.page.groups[3])
    ELSE HeadersOf(resp.page.groups[2])
IsShown(h) == h \in Range(ShownHeaders)
Boundary == IndexOf(Hdr, OUT_CHN)

\* C14: when OUT_CHN is among the headers, Group 1 holds the shown headers
\* up to and including (the first) OUT_CHN and Group 2 the shown headers
\* after it, each in column order.
C14_BoundarySplit ==
    (Answered /\ Matched /\ OUT_CHN \in Range(Hdr)) =>
        /\ Group1 = SelectSeq(Take(Hdr, Boundary), IsShown)
        /\ Group2 = SelectSeq(Drop(Hdr, Boundary), IsShown)

C14_Witness ==
    /\ Answered /\ Matched
    /\ resp.variant = "app10"
    /\ Hdr = <<H_ID, OUT_CHN, H_A>>
    /\ Group1 = <<H_ID, OUT_CHN>>
    /\ Group2 = <<H_A>>

\* the populated headers of the matched record, in column order
PopulatedHeaders == SelectSeq(Hdr, LAMBDA h : Populated(resp.row, h))
HalfUp(n) == (n + 1) \div 2

\* C15: when OUT_CHN is not among the headers, the n populated headers of
\* the matched record are split at the midpoint: Group 1 holds the first
\* ceil(n/2) of them and Group 2 the other floor(n/2).
C15_MidpointSplit ==
    (Answered /\ Matched /\ OUT_CHN \notin Range(Hdr)) =>
        /\ Group1 = Take(PopulatedHeaders, HalfUp(Len(PopulatedHeaders)))
        /\ Group2 = Drop(PopulatedHeaders, HalfUp(Len(PopulatedHeaders)))

\* the headers of Group 1 in app10.py (all of them when OUT_CHN is absent)
\* and the two tables Group 1 is shown as
Group1Headers == Take(Hdr, IF OUT_CHN \in Range(Hdr) THEN Boundary ELSE Len(Hdr))
SubGroup1 == HeadersOf(resp.page.groups[1])
SubGroup2 == HeadersOf(resp.page.groups[2])
SubCut ==
    IF HPX_Shutdown \in Range(Group1Headers)
    THEN IndexOf(Group1Headers, HPX_Shutdown)
    ELSE HalfUp(Len(Group1Headers))

\* C16: in app10.py Group 1 is split in two: at 'HPX Shutdown', which ends
\* the first sub-group, when it is among Group 1's headers; otherwise at
\* the midpoint of Group 1, the first sub-group taking the half rounded up.
C16_SecondarySplit ==
    (Answered /\ Matched /\ resp.variant = "app10") =>
        /\ SubGroup1 = SelectSeq(Take(Group1Headers, SubCut), IsShown)
        /\ SubGroup2 = SelectSeq(Drop(Group1Headers, SubCut), IsShown)

----------------------------------------------------------------------------
(* Links (SpecLink) *)

\* the header holds the token at some position, letter case aside
HoldsToken(h, token) ==
    \E i \in 1..(Len(h) - Len(token) + 1) :
        \A k \in DOMAIN token : Lower(<<h[i + k - 1]>>) = <<token[k]>>
LinkHeader(h) == HoldsToken(h, S_link) \/ HoldsToken(h, S_url)

\* the cell of the file under header h, trimmed
TrimmedCell(h) == Strip(csv.lines[1][IndexOf(csv.fieldnames, h)])
LinkValue(v) == StartsWith(v, S_http) \/ StartsWith(v, S_https)

Entries == Flatten(resp.page.groups)

\* C17: a shown (header, value) pair is a link exactly when the header
\* contains 'link' or 'url', letter case aside, and the trimmed value
\* starts with 'http://' or 'https://'; a link points to the trimmed value
\* and every other pair shows the trimmed value as text.
C17_LinkClassification ==
    (Answered /\ Matched) =>
        \A i \in DOMAIN Entries :
            LET e == Entries[i] IN
            /\ e.td.link <=> (LinkHeader(e.h) /\ LinkValue(TrimmedCell(e.h)))
            /\ e.td.text = esc(TrimmedCell(e.h))

C17_Witness ==
    /\ Answered /\ Matched
    /\ resp.variant = "app10"
    /\ csv.fieldnames = <<H_ID, H_DocLink>>
    /\ csv.lines[1][2] = S_https \o P_x
    /\ \E i \in DOMAIN Entries : Entries[i].h = H_DocLink /\ Entries[i].td.link

----------------------------------------------------------------------------
(* Outcome and display groups (Spec) *)

Statuses == {"", "No match", "tables"}

\* C18: every answer has exactly one of the three outcomes NoQuery,
\* NoMatch and Matched; only a Matched answer shows fields, and the fields
\* it shows are values of the one matched record, a row of the file.
C18_GroupsOnlyForMatched ==
    Responded =>
        /\ Cardinality({s \in Statuses : resp.page.result = s}) = 1
        /\ ~Matched => Entries = <<>>
        /\ Matched =>
              /\ \E r \in DOMAIN resp.rows : resp.row = resp.rows[r]
              /\ \A i \in DOMAIN Entries :
                    /\ Entries[i].h \in Keys(resp.row)
                    /\ Entries[i].td.text = esc(Get(resp.row, Entries[i].h, None))

C18_Witness ==
    /\ Answered /\ Matched
    /\ resp.variant = "app9"
    /\ Len(resp.rows) = 2
    /\ resp.rows[1] # resp.rows[2]
    /\ resp.row = resp.rows[2]
    /\ Len(Entries) = 2

----------------------------------------------------------------------------
(* Errors (SpecGroup) *)

\* C19: a request on a file that can be read ends with a normal answer
\* (200) whose outcome is NoQuery, NoMatch or Matched, whatever the
\* headers, the rows (lines with fewer cells than headers included) and
\* the query; the error answer (500) is given only when the file cannot
\* be read.
C19_NeverRaisesOnValidData ==
    Responded =>
        /\ (resp.code = 500) <=> (csv = Missing)
        /\ resp.code = 200 => (NoQuery \/ NoMatch \/ Matched)

----------------------------------------------------------------------------
(* Frame (Spec) *)

----------------------------------------------------------------------------
(* Requests over time (SpecCache) *)

C22_MissingFileIsContained ==
    [][csv' = csv =>
          IF csv' = Missing
          THEN /\ resp'.code = 500
               /\ resp'.page.error # None
               /\ resp'.headers = <<>> /\ resp'.rows = <<>>
               /\ resp'.row = NoneDict
               /\ Flatten(resp'.page.groups) = <<>>
          ELSE resp'.code = 200]_vars

\* the file is back, with a line, after a request that failed
C22_Witness ==
    /\ Responded /\ resp.code = 500
    /\ resp.page.error = E_NotFound
    /\ csv # Missing
    /\ Len(csv.lines) = 1

----------------------------------------------------------------------------
(* An index by normalized key value (Spec) *)

\* the index the specification allows in place of the scan: the rows are
\* taken in their order, and a row is entered under the normalized value of
\* its key column unless that value is in the index already
RECURSIVE BuildIndex(_, _, _)
BuildIndex(rows, id_key, index) ==
    IF rows = <<>> THEN index
    ELSE LET k == _norm(Get(Head(rows), id_key, None))
         IN  BuildIndex(Tail(rows), id_key,
                        IF k \in Keys(index) THEN index ELSE Put(index, k, Head(rows)))

IndexLookup(index, q) == Get(index, _norm(q), NoneDict)

RowIndex == BuildIndex(resp.rows, resp.id_key, EmptyDict)

----------------------------------------------------------------------------
(* The two-group and the three-group page (SpecGroup) *)

\* the page app10.py and the page app9.py make of the headers and the
\* record of the request that was answered
Page10 == page_html(resp.headers, resp.row, resp.id_key, None, resp.q)
Page9 == page_html_9(resp.headers, resp.row, resp.id_key, None, resp.q)

\* C24: for every header list and matched record, with OUT_CHN among the
\* headers or not, the two tables of Group 1 in app10.py, one after the
\* other, are Group 1 of app9.py, and the third table of app10.py is
\* Group 2 of app9.py.
C24_SamePartition ==
    (Answered /\ Matched /\ resp.variant \in {"app10", "app9"}) =>
        /\ resp.page = IF resp.variant = "app10" THEN Page10 ELSE Page9
        /\ Page10.groups[1] \o Page10.groups[2] = Page9.groups[1]
        /\ Page10.groups[3] = Page9.groups[2]

\* the record holds a value for OUT_CHN, and it is empty or only whitespace
OutChnBlank ==
    LET v == Get(resp.row, OUT_CHN, None) IN v # None /\ Strip(v) = <<>>

\* C25: when OUT_CHN is among the headers and its value in the matched
\* record is blank, every populated header before the (first) OUT_CHN
\* column is in Group 1, every populated header after it is in Group 2,
\* and OUT_CHN is shown in neither group.
C25_BlankBoundaryStillSplits ==
    (Answered /\ Matched /\ OUT_CHN \in Range(Hdr) /\ OutChnBlank) =>
        /\ \A i \in DOMAIN Hdr :
              Populated(resp.row, Hdr[i]) =>
                  /\ i < Boundary => Hdr[i] \in Range(Group1)
                  /\ i > Boundary => Hdr[i] \in Range(Group2)
        /\ OUT_CHN \notin Range(Group1) \cup Range(Group2)

C25_Witness ==
    /\ Answered /\ Matched
    /\ resp.variant = "app10"
    /\ Hdr = <<H_ID, OUT_CHN, H_A>>
    /\ Get(resp.row, OUT_CHN, None) = <<>>
    /\ Group1 = <<H_ID>>
    /\ Group2 = <<H_A>>

----------------------------------------------------------------------------
(* Queries with the same normalized form (Spec) *)

\* C26: two requests on the same file whose queries have the same
\* normalized form are answered with the same status code, the same outcome
\* (NoQuery, NoMatch or Matched) and the same matched record.
C26_OutcomeByNormalizedQuery ==
    Answered =>
        \A q2 \in QueryPool :
            _norm(q2) = _norm(resp.q) =>
                LET other == Handle(resp.variant, csv, q2)
                IN  /\ other.code = resp.code
                    /\ other.page.result = resp.page.result
                    /\ other.row = resp.row

----------------------------------------------------------------------------
(* Records with a blank key (Spec) *)

\* the value of the key column in a row, None when the row has none
KeyOf(row) == Get(row, resp.id_key, None)
BlankKey(row) == KeyOf(row) = None \/ ~Truthy(_norm(KeyOf(row)))

\* C27: the record found for a request has a key-column value that is
\* there, whose normalized form is not empty and equals the normalized
\* query; a row whose key-column value is absent, empty or normalizes to
\* the empty string is found for no query.
C27_BlankKeyNeverReturned ==
    (Answered /\ Truthy(resp.id_key)) =>
        /\ TruthyDict(resp.row) =>
              /\ ~BlankKey(resp.row)
              /\ _norm(KeyOf(resp.row)) = _norm(resp.q)
        /\ \A q \in QueryPool :
              LET r == find_row(resp.rows, resp.id_key, q)
              IN  TruthyDict(r) => ~BlankKey(r) /\ _norm(KeyOf(r)) = _norm(q)

\* the first row has a blank key and the second row is the record found
C27_Witness ==
    /\ Answered /\ Matched
    /\ Len(resp.rows) = 2
    /\ BlankKey(resp.rows[1])
    /\ resp.row = resp.rows[2]
    /\ resp.rows[1] # resp.rows[2]

----------------------------------------------------------------------------
(* The header index and the key column are well formed (SpecKey) *)

IndexValues == {resp.norm2orig[i][2] : i \in DOMAIN resp.norm2orig}

\* C28: every key of the header index is a non-empty string, the
\* normalized form of its value; every value is one of the headers as
\* written in the file; the key column is None or one of the headers as
\* written; a header whose normalized form is empty is no value of the
\* index and is not the key column.
C28_SchemaWellFormed ==
    Answered =>
        /\ \A i \in DOMAIN resp.norm2orig :
              LET k == resp.norm2orig[i][1]
                  v == resp.norm2orig[i][2]
              IN  /\ Truthy(k)
                  /\ v \in Range(Hdr)
                  /\ _norm(v) = k
        /\ resp.id_key = None \/ resp.id_key \in Range(Hdr)
        /\ \A h \in Range(Hdr) :
              ~Truthy(_norm(h)) => h \notin IndexValues /\ resp.id_key # h

\* an empty header stands first, before the header that is the key column
C28_Witness ==
    /\ Answered
    /\ Hdr = << <<>>, H_template_id_spaced, H_Notes >>
    /\ Len(resp.norm2orig) = 2
    /\ resp.id_key = H_template_id_spaced

----------------------------------------------------------------------------
(* The form of a normalized str (SpecNorm) *)

\* str.isupper() of one letter
IsUpper(c) ==
    \/ c \in UpperSet
    \/ c \in AcuteComposedSet /\ WithoutAcute[c] \in UpperSet
    \/ c = CHEROKEE_A

\* no whitespace at either end, no two whitespace characters in a row, no
\* zero-width space and no byte-order mark
Trimmed(s) ==
    /\ s # <<>> => ~IsSpace(s[1]) /\ ~IsSpace(s[Len(s)])
    /\ \A i \in 1..(Len(s) - 1) : ~(IsSpace(s[i]) /\ IsSpace(s[i + 1]))
    /\ ZWSP \notin Range(s) /\ BOM \notin Range(s)

\* None, or a str of whitespace and zero-width characters only
BlankInput(s) ==
    s = None \/ \A i \in DOMAIN s : IsSpace(s[i]) \/ s[i] \in {ZWSP, BOM}

====
